---- MODULE Spec2Model ----
(***************************************************************************)
(* Model of the WhatsApp support bot's message-response pipeline           *)
(* (MessagePipeline.handleInboundMessage), the EscalationService and the   *)
(* part of the SessionManager registry the pipeline reads.                 *)
(*                                                                         *)
(* Every `await` of the TypeScript code is a suspension point: one action  *)
(* of the model is the code that runs between two suspension points, so    *)
(* concurrent invocations interleave exactly at the awaits.  Storage       *)
(* (Postgres) executes each statement atomically and is reliable except    *)
(* for the constraint violations the schema declares; the embedding, LLM   *)
(* and transport collaborators may fail at any call.  The session registry *)
(* is mutated by createSession, destroySession and the clients' events,    *)
(* which run concurrently with the pipeline, so a read of the registry     *)
(* may find it in any of its states.                                       *)
(*                                                                         *)
(* Confidences are hundredths (70 stands for 0.70).                        *)
(***************************************************************************)
EXTENDS Integers, Sequences, FiniteSets, TLC

\* ------------------------------------------------------------------ bounds
\* concurrent handleInboundMessage invocations, and external events (inbound
\* messages plus operator calls that change a row) in one run
MaxInvocations == 2
MaxEvents == 3

Procs == 1..MaxInvocations
MaxSessionCalls == 3
SessionCallers == 1..MaxSessionCalls
MaxRefreshCalls == 3
RefreshCallers == 1..MaxRefreshCalls
MaxLogins == 1

\* messages in a conversation history, previous bot answers and retrieval
\* results of a context handed to trimContext
MaxHistory == 12
MaxAnswers == 5
MaxResults == 2

\* citation markers in one LLM response
MaxCitations == 3

\* hits of one vector search
MaxHits == 3

\* ------------------------------------------------------- program constants
llmConfidenceThreshold == 70
FallbackConfidence == 10
CHARS_PER_TOKEN == 4
DEFAULT_MAX_TOKENS == 12000
ragSimilarityThreshold == 75

\* --------------------------------------------------------------- universes
KnownOrg == "org1"
UnknownOrg == "orgX"
OrgIds == {KnownOrg, UnknownOrg}

\* A WhatsApp sender id: a number and the suffix the client library appends.
\* The first message comes from FirstPhone, a later one from the same number
\* under the other suffix or from another number.
FirstPhone == [num |-> "111", suffix |-> "@c.us"]
LaterPhones ==
    { [num |-> "111", suffix |-> "@s.whatsapp.net"],
      [num |-> "222", suffix |-> "@c.us"] }
RawPhones == {FirstPhone} \cup LaterPhones

\* SessionManager.sessions.get(orgId): no transport, or one with a status
TransportStates == {"none", "initializing", "ready"}

\* JavaScript undefined / SQL NULL for numeric and id columns.
Undefined == -1
Null == 0

\* Texts are records so that texts of different origin never compare equal.
EmptyText == [kind |-> "empty", n |-> 0]
OrgFallbackText == [kind |-> "orgFallback", n |-> 0]
DefaultFallbackText == [kind |-> "defaultFallback", n |-> 0]
Body(i) == [kind |-> "body", n |-> i]
Content(i) == [kind |-> "llmContent", n |-> i]

\* orgs.settings values the organization may have been configured with.
OrgSettings ==
    { [confidence_threshold |-> 0, fallback_message |-> OrgFallbackText],
      [confidence_threshold |-> 50, fallback_message |-> EmptyText] }

\* What the collaborators may answer.
LLMOutcomes ==
    { [confidence |-> 30, citations |-> <<>>],
      [confidence |-> 50, citations |-> <<1, 3, 1>>],
      [confidence |-> 95, citations |-> <<2, 2, 1>>] }
RetrievalOutcomes ==
    { [results |-> <<>>, aggregateConfidence |-> 0],
      [results |-> <<"docA", "docB">>, aggregateConfidence |-> 90] }
Operators == {"alice"}

NoConv == [id |-> Null, status |-> "none", session_id |-> Null]
NoRetrieval == [results |-> <<>>, aggregateConfidence |-> Undefined]
NoLLM == [confidence |-> Undefined, citations |-> <<>>]

\* a createSession or destroySession call that has not been made yet
NoSessionCall == [op |-> "none", pc |-> "idle", transport |-> Null]

\* a POST /api/auth/refresh request that has not been made yet
NoRefreshCall == [pc |-> "idle", token |-> Null, status |-> 0]

\* the local variables of one handleInboundMessage invocation
NoFrame ==
    [ orgId |-> UnknownOrg, from |-> FirstPhone,
      customerId |-> Null, conv |-> NoConv, sessionId |-> Null,
      retrieval |-> NoRetrieval, llm |-> NoLLM ]

VARIABLES
    settings,           \* orgs.settings of KnownOrg
    whatsapp_sessions,  \* org ids with a whatsapp_sessions row
    customers,          \* table customers (id = index)
    conversations,      \* table conversations (id = index)
    recency,            \* conversation ids, least recently updated first
    messages,           \* table messages
    escalations,        \* table escalations (id = index)
    sent,               \* texts delivered by transport.sendMessage
    resolving,          \* conversation id a running resolve() still has to update
    operatorCalls,      \* number of takeover and resolve calls that changed a row
    returned,           \* what the last takeover or resolve call returned
    maxTokens,          \* TokenBudgetManager.maxTokens
    context,            \* the ChatContext handed to trimContext
    trimmed,            \* what trimContext returned for it
    retrimmed,          \* what trimContext returned for that result
    fn,                 \* the function evaluated on its own, "none" before
    args,               \* the arguments it was given
    out,                \* what it returned
    sessions,           \* SessionManager.sessions.get(orgId): a transport or Null
    transports,         \* the transports created so far: live or disconnected
    sessionCalls,       \* per createSession/destroySession call: where it is
    refresh_tokens,     \* table refresh_tokens (id = index)
    refreshCalls,       \* per refresh request: where it is, its cookie, its reply
    pc,                 \* per invocation: the await it is suspended at
    frame,              \* per invocation: its local variables
    result,             \* per invocation: how it ended
    reported,           \* per invocation: the confidence the LLM answered with
    log                 \* per invocation: the calls it made, in order

vars == << settings, whatsapp_sessions, customers, conversations, recency,
           messages, escalations, sent, resolving, operatorCalls, returned,
           maxTokens, context, trimmed, retrimmed, fn, args, out, sessions,
           transports, sessionCalls, refresh_tokens, refreshCalls, pc, frame, result, reported, log >>

db == << customers, conversations, recency, messages, escalations >>
budgeting == << maxTokens, context, trimmed, retrimmed >>
evaluation == << fn, args, out >>
registry == << sessions, transports, sessionCalls >>
auth == << refresh_tokens, refreshCalls >>
env == << settings, whatsapp_sessions, resolving, operatorCalls, returned,
         budgeting, evaluation, registry, auth >>
invocations == << pc, frame, result, reported, log >>

\* ----------------------------------------------------------------- helpers
\* JavaScript `v || d` on a number: undefined and 0 are falsy.
OrDefaultNumber(v, d) == IF v = Undefined \/ v = 0 THEN d ELSE v

\* JavaScript `v || d` on a string: the empty string is falsy.
OrDefaultText(v, d) == IF v = EmptyText THEN d ELSE v

\* phone.replace('@c.us', '').replace('@s.whatsapp.net', '')
NormalizePhone(phone) == phone.num

\* variant: duplicates are kept
Dedup_keepsAll(s) == s

RECURSIVE Dedup(_)
Dedup(s) ==
    IF s = <<>> THEN <<>>
    ELSE LET init == Dedup(SubSeq(s, 1, Len(s) - 1))
             last == s[Len(s)]
         IN IF \E k \in 1..Len(init) : init[k] = last THEN init
            ELSE Append(init, last)

RECURSIVE CitedDocs(_, _)
CitedDocs(citations, retrievalResults) ==
    IF citations = <<>> THEN <<>>
    ELSE LET idx == Head(citations) - 1
             rest == CitedDocs(Tail(citations), retrievalResults)
         IN IF idx >= 0 /\ idx < Len(retrievalResults)
            THEN <<retrievalResults[idx + 1]>> \o rest
            ELSE rest

extractLinkedDocIds(citations, retrievalResults) ==
    Dedup(CitedDocs(citations, retrievalResults))

Log(i, event) == log' = [log EXCEPT ![i] = Append(@, event)]

\* continue at the next await with the locals f; on return (or in the
\* top-level catch) the locals are gone
Goto(i, next, how, f) ==
    /\ pc' = [pc EXCEPT ![i] = next]
    /\ result' = [result EXCEPT ![i] = how]
    /\ frame' = [frame EXCEPT ![i] = IF next = "done" THEN NoFrame ELSE f]

Finish(i, how) == Goto(i, "done", how, NoFrame)

\* variant: a failed LLM call is answered with the fallback and escalated
CatchError_fallbackOnLLM(i, where) ==
    IF where = "llmFailed"
    THEN Goto(i, "saveFallback", where, frame[i])
    ELSE Finish(i, where)

\* variant: the catch rethrows to the caller
CatchError_rethrows(i, where) == Goto(i, "thrown", where, NoFrame)

\* } catch (error) { log.error(...) }: the invocation ends, `where` names the
\* call that threw
CatchError(i, where) == Finish(i, where)

\* ------------------------------------------------------- TokenBudgetManager
\* A text is its identity and its length in characters; text.slice(0, n) keeps
\* the identity (it is a prefix of the same text) and cuts the length.
\* customer_profile, session_metadata and automation_config enter the estimate
\* only through the length of their JSON serialization.
Min(a, b) == IF a < b THEN a ELSE b
Max(a, b) == IF a > b THEN a ELSE b

\* Array.prototype.slice(0, n)
SliceFirst(s, n) == SubSeq(s, 1, Min(n, Len(s)))

\* Array.prototype.slice(-n)
SliceLast(s, n) == SubSeq(s, Max(1, Len(s) - n + 1), Len(s))

\* String.prototype.slice(0, n)
SliceText(text, n) == [text EXCEPT !.len = Min(@, n)]

RECURSIVE SumChars(_, _)
SumChars(s, overhead) ==
    IF s = <<>> THEN 0
    ELSE Head(s).text.len + overhead + SumChars(Tail(s), overhead)

RECURSIVE SumResultChars(_)
SumResultChars(s) ==
    IF s = <<>> THEN 0
    ELSE Head(s).chunk_text.len + Head(s).title.len + 80 + SumResultChars(Tail(s))

\* Math.ceil(chars / CHARS_PER_TOKEN)
estimateTokens(c) ==
    LET chars == SumChars(c.conversation_history, 50)
                 + SumResultChars(c.retrieval_results)
                 + c.customer_profile.json
                 + c.session_metadata.json
                 + c.automation_config.json
                 + SumChars(c.previous_bot_answers, 50)
    IN (chars + CHARS_PER_TOKEN - 1) \div CHARS_PER_TOKEN

\* variant: the cap keeps one answer fewer on every call
capBotAnswers_oneFewer(c) ==
    [c EXCEPT !.previous_bot_answers = SliceFirst(@, Max(0, Min(3, Len(@) - 1)))]

\* trimmed.previous_bot_answers = trimmed.previous_bot_answers.slice(0, 3)
capBotAnswers(c) == [c EXCEPT !.previous_bot_answers = SliceFirst(@, 3)]

\* trimmed.conversation_history = trimmed.conversation_history.slice(-n)
capHistory(c, n) == [c EXCEPT !.conversation_history = SliceLast(@, n)]

\* variant: the shortened results come out in the opposite order
truncateChunks_reordering(c) ==
    [c EXCEPT !.retrieval_results =
        [k \in 1..Len(@) |->
            [@[Len(@) + 1 - k] EXCEPT !.chunk_text = SliceText(@, 500)]]]

\* variant: results whose chunk is too long are dropped instead of shortened
truncateChunks_dropping(c) ==
    [c EXCEPT !.retrieval_results =
        SelectSeq(@, LAMBDA r : r.chunk_text.len <= 500)]

\* trimmed.retrieval_results.map(r => ({...r, chunk_text: r.chunk_text.slice(0, 500)}))
truncateChunks(c) ==
    [c EXCEPT !.retrieval_results =
        [k \in 1..Len(@) |-> [@[k] EXCEPT !.chunk_text = SliceText(@, 500)]]]

\* variant: once over budget every reduction is applied
trimContext_everyStep(c, budget) ==
    IF estimateTokens(c) <= budget THEN c
    ELSE truncateChunks(capHistory(capHistory(capBotAnswers(c), 10), 5))

\* variant: the bot answers are capped also when the context fits
trimContext_alwaysCaps(c, budget) ==
    IF estimateTokens(c) <= budget THEN capBotAnswers(c)
    ELSE truncateChunks(capHistory(capHistory(capBotAnswers(c), 10), 5))

\* trimContext(context) of a manager whose maxTokens is `budget`: totalTokens is
\* re-estimated after each step and guards the next one
trimContext(c, budget) ==
    LET total0 == estimateTokens(c)
    IN IF total0 <= budget THEN c
       ELSE
       LET over2 == total0 > budget
           t2 == IF over2 THEN capBotAnswers(c) ELSE c
           total2 == IF over2 THEN estimateTokens(t2) ELSE total0
           over3 == total2 > budget
           t3 == IF over3 THEN capHistory(t2, 10) ELSE t2
           total3 == IF over3 THEN estimateTokens(t3) ELSE total2
           over4 == total3 > budget
           t4 == IF over4 THEN capHistory(t3, 5) ELSE t3
           total4 == IF over4 THEN estimateTokens(t4) ELSE total3
           over5 == total4 > budget
           t5 == IF over5 THEN truncateChunks(t4) ELSE t4
       IN t5

\* ---- the contexts handed to trimContext, as ContextAssembler.assemble builds them
\* conversation_history: chronological, oldest first (messages.reverse())
History(n, len) ==
    [k \in 1..n |->
        [id |-> k, timestamp |-> k, text |-> [id |-> k, len |-> len + 10 * k]]]

\* previous_bot_answers: ORDER BY timestamp DESC, newest first
Answers(n, len) ==
    [k \in 1..n |->
        [message_id |-> n - k + 1, timestamp |-> n - k + 1,
         text |-> [id |-> n - k + 1, len |-> len + 10 * k]]]

\* retrieval_results: by descending score
Results(chunks) ==
    [k \in 1..Len(chunks) |->
        [doc_id |-> k, title |-> [id |-> k, len |-> 20], chunk_score |-> 90 - k,
         chunk_text |-> [id |-> k, len |-> chunks[k]]]]

MessageLengths == {20, 400}
ChunkLengths == {300, 500, 900}
Budgets == {DEFAULT_MAX_TOKENS, 2400, 2200, 1800, 1400, 1000, 100}

ChatContext(history, results, answers) ==
    [ conversation_history |-> history,
      customer_profile |-> [json |-> 160],
      session_metadata |-> [json |-> 120],
      automation_config |-> [json |-> 100],
      retrieval_results |-> results,
      previous_bot_answers |-> answers ]

\* no context: nothing has been handed to or returned by trimContext
NoContext ==
    [ conversation_history |-> <<>>,
      customer_profile |-> [json |-> 0],
      session_metadata |-> [json |-> 0],
      automation_config |-> [json |-> 0],
      retrieval_results |-> <<>>,
      previous_bot_answers |-> <<>> ]

\* the external events so far
Events == Cardinality({ i \in Procs : pc[i] # "idle" }) + operatorCalls

\* ------------------------------------------------------------------- Init
\* the services right after construction: empty tables, no invocation yet
Constructed ==
    /\ settings \in OrgSettings
    /\ whatsapp_sessions = {}
    /\ customers = <<>>
    /\ conversations = <<>>
    /\ recency = <<>>
    /\ messages = <<>>
    /\ escalations = <<>>
    /\ sent = <<>>
    /\ resolving = Null
    /\ operatorCalls = 0
    /\ returned = Undefined
    /\ pc = [i \in Procs |-> "idle"]
    /\ frame = [i \in Procs |-> NoFrame]
    /\ result = [i \in Procs |-> "running"]
    /\ reported = [i \in Procs |-> Undefined]
    /\ log = [i \in Procs |-> <<>>]
    /\ fn = "none"
    /\ args = << >>
    /\ out = << >>
    /\ sessions = Null
    /\ transports = << >>
    /\ sessionCalls = [k \in SessionCallers |-> NoSessionCall]
    /\ refresh_tokens = << >>
    /\ refreshCalls = [k \in RefreshCallers |-> NoRefreshCall]

\* new TokenBudgetManager(): the default budget, nothing trimmed yet
Init ==
    /\ Constructed
    /\ maxTokens = DEFAULT_MAX_TOKENS
    /\ context = NoContext
    /\ trimmed = NoContext
    /\ retrimmed = NoContext

\* ------------------------------------------------- storage query helpers
\* SELECT id FROM customers WHERE org_id = $1 AND phone_number = $2
CustomerRows(org, phone) ==
    { c \in 1..Len(customers) :
        customers[c].org_id = org /\ customers[c].phone_number = phone }

\* ... WHERE org_id = $1 AND customer_id = $2 AND status IN ('active','escalated')
OpenConversations(org, cust) ==
    { c \in 1..Len(conversations) :
        /\ conversations[c].org_id = org
        /\ conversations[c].customer_id = cust
        /\ conversations[c].status \in {"active", "escalated"} }

\* position of a conversation in the updated_at order
Rank(c) == CHOOSE k \in 1..Len(recency) : recency[k] = c

\* ORDER BY updated_at DESC LIMIT 1
LatestOf(cs) == CHOOSE c \in cs : \A d \in cs : Rank(d) <= Rank(c)

\* the update_conversations_updated_at trigger: an updated row becomes the latest
Touch(c) ==
    LET others == SelectSeq(recency, LAMBDA d : d # c)
    IN Append(others, c)

\* ----------------------------------------- MessagePipeline, step by step
\* the transport's message event calls the global handler
Start(i, org, phone) ==
    /\ pc[i] = "idle"
    /\ Goto(i, "selectOrg", "running", [frame[i] EXCEPT !.orgId = org, !.from = phone])
    /\ UNCHANGED << db, env, sent, reported, log >>

\* variant: the `if (!org) return` guard is missing
OrgExists_unchecked(org) == TRUE

\* SELECT * FROM orgs WHERE id = $1 returns a row
OrgExists(org) == org = KnownOrg

\* 1. get the org settings; `if (!org) return`
SelectOrg(i) ==
    /\ pc[i] = "selectOrg"
    /\ IF ~OrgExists(frame[i].orgId)
       THEN Finish(i, "orgNotFound")
       ELSE Goto(i, "selectCustomer", "running", frame[i])
    /\ UNCHANGED << db, env, sent, reported, log >>

\* 2. getOrCreateCustomer: the SELECT
SelectCustomer(i) ==
    /\ pc[i] = "selectCustomer"
    /\ LET rows == CustomerRows(frame[i].orgId, NormalizePhone(frame[i].from))
       IN IF rows = {}
          THEN Goto(i, "insertCustomer", "running", frame[i])
          ELSE Goto(i, "selectConversation", "running",
                    [frame[i] EXCEPT !.customerId = CHOOSE c \in rows : TRUE])
    /\ UNCHANGED << db, env, sent, reported, log >>

\* 2. getOrCreateCustomer: the INSERT; UNIQUE(org_id, phone_number) rejects a
\*    second row and the error reaches the top-level catch
InsertCustomer(i) ==
    /\ pc[i] = "insertCustomer"
    /\ IF CustomerRows(frame[i].orgId, NormalizePhone(frame[i].from)) # {}
       THEN /\ CatchError(i, "customerFailed")
            /\ UNCHANGED customers
       ELSE /\ customers' = Append(customers,
                   [org_id |-> frame[i].orgId,
                    phone_number |-> NormalizePhone(frame[i].from)])
            /\ Goto(i, "selectConversation", "running",
                    [frame[i] EXCEPT !.customerId = Len(customers) + 1])
    /\ UNCHANGED << conversations, recency, messages, escalations, env, sent,
                    reported, log >>

\* 3. getOrCreateConversation: the SELECT
SelectConversation(i) ==
    /\ pc[i] = "selectConversation"
    /\ LET open == OpenConversations(frame[i].orgId, frame[i].customerId)
       IN IF open = {}
          THEN Goto(i, "selectSession", "running", frame[i])
          ELSE LET c == LatestOf(open)
               IN Goto(i, "saveInbound", "running",
                       [frame[i] EXCEPT !.conv =
                           [id |-> c,
                            status |-> conversations[c].status,
                            session_id |-> conversations[c].session_id]])
    /\ UNCHANGED << db, env, sent, reported, log >>

\* 3. getOrCreateConversation: SELECT id FROM whatsapp_sessions WHERE org_id = $1
SelectSession(i) ==
    /\ pc[i] = "selectSession"
    /\ Goto(i, "insertConversation", "running",
            [frame[i] EXCEPT !.sessionId =
                IF frame[i].orgId \in whatsapp_sessions THEN 1 ELSE Null])
    /\ UNCHANGED << db, env, sent, reported, log >>

\* 3. getOrCreateConversation: the INSERT (no uniqueness constraint in the schema)
InsertConversation(i) ==
    /\ pc[i] = "insertConversation"
    /\ LET c == Len(conversations) + 1
       IN /\ conversations' = Append(conversations,
                 [org_id |-> frame[i].orgId, customer_id |-> frame[i].customerId,
                  session_id |-> frame[i].sessionId, status |-> "active"])
          /\ recency' = Append(recency, c)
          /\ Goto(i, "saveInbound", "running",
                  [frame[i] EXCEPT !.conv =
                      [id |-> c, status |-> "active",
                       session_id |-> frame[i].sessionId]])
    /\ UNCHANGED << customers, messages, escalations, env, sent, reported, log >>

\* variant: the escalated check is missing
IsEscalated_never(conversation) == FALSE

\* the check after step 3: an operator has taken the conversation over
IsEscalated(conversation) == conversation.status = "escalated"

\* variant: the early return of an escalated conversation forgets the save
saveMessage_skippedWhenEscalated(i) ==
    IF IsEscalated(frame[i].conv)
    THEN messages
    ELSE Append(messages,
            [conversation_id |-> frame[i].conv.id, org_id |-> frame[i].orgId,
             direction |-> "inbound", sender_role |-> "customer",
             text |-> Body(i), llm_confidence |-> Undefined,
             linked_doc_ids |-> <<>>, by |-> i])

\* saveMessage(conversation.id, orgId, msg, 'inbound', 'customer')
saveMessage(i) ==
    Append(messages,
        [conversation_id |-> frame[i].conv.id, org_id |-> frame[i].orgId,
         direction |-> "inbound", sender_role |-> "customer",
         text |-> Body(i), llm_confidence |-> Undefined,
         linked_doc_ids |-> <<>>, by |-> i])

\* 4. save the inbound message; an escalated conversation stops here
SaveInbound(i) ==
    /\ pc[i] = "saveInbound"
    /\ messages' = saveMessage(i)
    /\ Log(i, "saveInbound")
    /\ IF IsEscalated(frame[i].conv)
       THEN Finish(i, "skippedEscalated")
       ELSE Goto(i, "retrieve", "running", frame[i])
    /\ UNCHANGED << customers, conversations, recency, escalations, env, sent,
                    reported >>

\* 5. retrievalService.retrieve: the embedding call may throw, the search
\*    answers with some hits
Retrieve(i) ==
    /\ pc[i] = "retrieve"
    /\ Log(i, "retrieve")
    /\ \/ CatchError(i, "retrievalFailed")
       \/ \E r \in RetrievalOutcomes :
            Goto(i, "assemble", "running", [frame[i] EXCEPT !.retrieval = r])
    /\ UNCHANGED << db, env, sent, reported >>

\* 6.-7. contextAssembler.assemble, trimContext, prompt building
Assemble(i) ==
    /\ pc[i] = "assemble"
    /\ Log(i, "assemble")
    /\ Goto(i, "llm", "running", frame[i])
    /\ UNCHANGED << db, env, sent, reported >>

\* 9. the only escalation gate
confidenceThreshold ==
    OrDefaultNumber(settings.confidence_threshold, llmConfidenceThreshold)

IsLowConfidence(confidence) == confidence < confidenceThreshold

\* 8.-9. llmProvider.chat, then the confidence check
CallLLM(i) ==
    /\ pc[i] = "llm"
    /\ Log(i, "llm")
    /\ \/ /\ CatchError(i, "llmFailed")
          /\ UNCHANGED reported
       \/ \E llmResponse \in LLMOutcomes :
            /\ Goto(i, IF IsLowConfidence(llmResponse.confidence)
                       THEN "saveFallback" ELSE "saveBot",
                    "running", [frame[i] EXCEPT !.llm = llmResponse])
            /\ reported' = [reported EXCEPT ![i] = llmResponse.confidence]
    /\ UNCHANGED << db, env, sent >>

\* saveBotMessage(conversationId, orgId, text, confidence, linkedDocIds)
saveBotMessage(i, text, confidence, linkedDocIds) ==
    Append(messages,
        [conversation_id |-> frame[i].conv.id, org_id |-> frame[i].orgId,
         direction |-> "outbound", sender_role |-> "bot",
         text |-> text, llm_confidence |-> confidence,
         linked_doc_ids |-> linkedDocIds, by |-> i])

\* 10.-11. extract the linked doc ids and save the bot reply
SaveBot(i) ==
    /\ pc[i] = "saveBot"
    /\ messages' = saveBotMessage(i, Content(i), frame[i].llm.confidence,
                       extractLinkedDocIds(frame[i].llm.citations,
                                           frame[i].retrieval.results))
    /\ Log(i, "saveBot")
    /\ Goto(i, "sendReply", "running", frame[i])
    /\ UNCHANGED << customers, conversations, recency, escalations, env, sent,
                    reported >>

\* getTransport(orgId) and transport.sendMessage(to, text): `if (transport)`
\* skips the call when no session is registered; sendMessage throws unless the
\* client is ready, and the client's own send may fail; a thrown error ends the
\* invocation in the top-level catch
SendVia(i, text, next, nextResult, failure) ==
    \E transport \in TransportStates :
        IF transport = "none"
        THEN /\ Goto(i, next, nextResult, frame[i])
             /\ UNCHANGED << sent, log >>
        ELSE /\ Log(i, "send")
             /\ IF transport # "ready"
                THEN /\ CatchError(i, failure)
                     /\ UNCHANGED sent
                ELSE \/ /\ sent' = Append(sent,
                               [to |-> frame[i].from, text |-> text, by |-> i])
                        /\ Goto(i, next, nextResult, frame[i])
                     \/ /\ CatchError(i, failure)
                        /\ UNCHANGED sent

\* 12. send the reply
SendReply(i) ==
    /\ pc[i] = "sendReply"
    /\ SendVia(i, Content(i), "done", "replied", "replySendFailed")
    /\ UNCHANGED << db, env, reported >>

\* handleLowConfidence: save the fallback as bot message
fallbackMessage == OrDefaultText(settings.fallback_message, DefaultFallbackText)

\* variant: the fallback is sent without having been saved
SaveFallback_sendOnly(i) ==
    /\ pc[i] = "saveFallback"
    /\ Goto(i, "sendFallback", "running", frame[i])
    /\ UNCHANGED << db, env, sent, reported, log >>

\* variant: the fallback is saved the way a reply is
SaveFallback_asReply(i) ==
    /\ pc[i] = "saveFallback"
    /\ messages' = saveBotMessage(i, fallbackMessage, frame[i].llm.confidence,
                       extractLinkedDocIds(frame[i].llm.citations,
                                           frame[i].retrieval.results))
    /\ Log(i, "saveBot")
    /\ Goto(i, "sendFallback", "running", frame[i])
    /\ UNCHANGED << customers, conversations, recency, escalations, env, sent,
                    reported >>

SaveFallback(i) ==
    /\ pc[i] = "saveFallback"
    /\ messages' = saveBotMessage(i, fallbackMessage, FallbackConfidence, <<>>)
    /\ Log(i, "saveBot")
    /\ Goto(i, "sendFallback", "running", frame[i])
    /\ UNCHANGED << customers, conversations, recency, escalations, env, sent,
                    reported >>

\* handleLowConfidence: send the fallback
SendFallback(i) ==
    /\ pc[i] = "sendFallback"
    /\ SendVia(i, fallbackMessage, "insertEscalation", "running",
               "fallbackSendFailed")
    /\ UNCHANGED << db, env, reported >>

\* --------------------------------------------------------- EscalationService
\* createEscalation: INSERT INTO escalations ... 'pending'
InsertEscalation(i) ==
    /\ pc[i] = "insertEscalation"
    /\ escalations' = Append(escalations,
           [org_id |-> frame[i].orgId, conversation_id |-> frame[i].conv.id,
            customer_id |-> frame[i].customerId,
            reason |-> [prefix |-> "LLM confidence too low: ",
                        confidence |-> frame[i].llm.confidence],
            status |-> "pending", assigned_to |-> "", by |-> i])
    /\ Log(i, "insertEscalation")
    /\ Goto(i, "updateConversation", "running", frame[i])
    /\ UNCHANGED << customers, conversations, recency, messages, env, sent,
                    reported >>

\* UPDATE conversations SET status = $2 WHERE id = $1
SetConversationStatus(c, status) ==
    /\ conversations' = [conversations EXCEPT ![c].status = status]
    /\ recency' = Touch(c)

\* createEscalation: UPDATE conversations SET status = 'escalated'
\* variant: no return after handleLowConfidence, the reply path follows
UpdateConversation_noReturn(i) ==
    /\ pc[i] = "updateConversation"
    /\ SetConversationStatus(frame[i].conv.id, "escalated")
    /\ Log(i, "updateConversation")
    /\ Goto(i, "saveBot", "running", frame[i])
    /\ UNCHANGED << customers, messages, escalations, env, sent, reported >>

UpdateConversation(i) ==
    /\ pc[i] = "updateConversation"
    /\ SetConversationStatus(frame[i].conv.id, "escalated")
    /\ Log(i, "updateConversation")
    /\ Finish(i, "escalated")
    /\ UNCHANGED << customers, messages, escalations, env, sent, reported >>

\* variant: null is returned also for a row that was updated
RowOrNull_alwaysNull(e) == Null

\* `rows[0] || null` of an UPDATE ... WHERE id = $1 RETURNING *: the row's id,
\* or null when no row has that id (the route answers 404)
RowOrNull(e) == IF e \in 1..Len(escalations) THEN e ELSE Null

\* variant: a takeover marks the escalation assigned
takeover_assigns(e, operatorName) ==
    /\ IF /\ e \in 1..Len(escalations)
          /\ << escalations[e].status, escalations[e].assigned_to >>
                # << "assigned", operatorName >>
       THEN /\ Events < MaxEvents
            /\ operatorCalls' = operatorCalls + 1
            /\ escalations' = [escalations EXCEPT ![e].status = "assigned",
                                                   ![e].assigned_to = operatorName]
       ELSE UNCHANGED << escalations, operatorCalls >>
    /\ returned' = RowOrNull(e)
    /\ UNCHANGED << customers, conversations, recency, messages, settings,
                    whatsapp_sessions, resolving, sent, invocations, budgeting,
                    evaluation, registry, auth >>

\* takeover(escalationId, operatorName): one UPDATE ... RETURNING *
takeover(e, operatorName) ==
    /\ IF /\ e \in 1..Len(escalations)
          /\ << escalations[e].status, escalations[e].assigned_to >>
                # << "in_progress", operatorName >>
       THEN /\ Events < MaxEvents
            /\ operatorCalls' = operatorCalls + 1
            /\ escalations' = [escalations EXCEPT ![e].status = "in_progress",
                                                   ![e].assigned_to = operatorName]
       ELSE UNCHANGED << escalations, operatorCalls >>
    /\ returned' = RowOrNull(e)
    /\ UNCHANGED << customers, conversations, recency, messages, settings,
                    whatsapp_sessions, resolving, sent, invocations, budgeting,
                    evaluation, registry, auth >>

\* resolve(escalationId): UPDATE escalations ... 'resolved' RETURNING *
resolve(e) ==
    /\ resolving = Null
    /\ IF e \in 1..Len(escalations)
       THEN /\ Events < MaxEvents
            /\ operatorCalls' = operatorCalls + 1
            /\ escalations' = [escalations EXCEPT ![e].status = "resolved"]
            /\ resolving' = escalations[e].conversation_id
       ELSE UNCHANGED << escalations, resolving, operatorCalls >>
    /\ returned' = RowOrNull(e)
    /\ UNCHANGED << customers, conversations, recency, messages, settings,
                    whatsapp_sessions, sent, invocations, budgeting,
                    evaluation, registry, auth >>

\* variant: a resolved escalation closes its conversation
resolveConversation_closes ==
    /\ resolving # Null
    /\ SetConversationStatus(resolving, "closed")
    /\ resolving' = Null
    /\ UNCHANGED << customers, messages, escalations, settings, whatsapp_sessions,
                    operatorCalls, returned, sent, invocations, budgeting,
                    evaluation, registry, auth >>

\* resolve(escalationId): UPDATE conversations SET status = 'active'
resolveConversation ==
    /\ resolving # Null
    /\ SetConversationStatus(resolving, "active")
    /\ resolving' = Null
    /\ UNCHANGED << customers, messages, escalations, settings, whatsapp_sessions,
                    operatorCalls, returned, sent, invocations, budgeting,
                    evaluation, registry, auth >>

\* ------------------------------------------------------------ SessionManager
\* createSession: INSERT INTO whatsapp_sessions (org_id, status) unless the
\* organization has a row already
createSession ==
    /\ KnownOrg \notin whatsapp_sessions
    /\ whatsapp_sessions' = whatsapp_sessions \cup {KnownOrg}
    /\ UNCHANGED << db, settings, resolving, operatorCalls, returned, sent,
                    invocations, budgeting,
                    evaluation, registry, auth >>

\* ---------------------------------------------------------------------- Next
\* invocations of handleInboundMessage are numbered in their order of arrival;
\* a known organization's messages come once createSession has made its session
Arrive ==
    \E i \in Procs, org \in OrgIds, phone \in RawPhones :
        /\ \A j \in Procs : j < i => pc[j] # "idle"
        /\ Events < MaxEvents
        /\ org = KnownOrg => org \in whatsapp_sessions
        /\ phone \in (IF i = 1 \/ org = UnknownOrg THEN {FirstPhone} ELSE LaterPhones)
        /\ Start(i, org, phone)

Pipeline ==
    \E i \in Procs :
        \/ SelectOrg(i)
        \/ SelectCustomer(i)
        \/ InsertCustomer(i)
        \/ SelectConversation(i)
        \/ SelectSession(i)
        \/ InsertConversation(i)
        \/ SaveInbound(i)
        \/ Retrieve(i)
        \/ Assemble(i)
        \/ CallLLM(i)
        \/ SaveBot(i)
        \/ SendReply(i)
        \/ SaveFallback(i)
        \/ SendFallback(i)
        \/ InsertEscalation(i)
        \/ UpdateConversation(i)

Operator ==
    \/ \E e \in 1..(Len(escalations) + 1), o \in Operators : takeover(e, o)
    \/ \E e \in 1..(Len(escalations) + 1) : resolve(e)
    \/ resolveConversation

Next == Arrive \/ Pipeline \/ Operator \/ createSession

Spec == Init /\ [][Next]_vars

\* ------------------------------------------------ trimContext on its own
\* a manager with some budget is handed some assembled context
TrimInit ==
    /\ Constructed
    /\ maxTokens \in Budgets
    /\ \E h \in 0..MaxHistory, a \in 0..MaxAnswers, r \in 0..MaxResults,
          len \in MessageLengths :
          \E chunks \in [1..r -> ChunkLengths] :
              context = ChatContext(History(h, len), Results(chunks), Answers(a, len))
    /\ trimmed = NoContext
    /\ retrimmed = NoContext

\* context = this.tokenBudgetManager.trimContext(context)
Trim ==
    /\ trimmed = NoContext
    /\ trimmed' = trimContext(context, maxTokens)
    /\ UNCHANGED << db, settings, whatsapp_sessions, resolving, operatorCalls,
                    returned, sent, invocations, maxTokens, context, retrimmed,
                    evaluation, registry, auth >>

\* trimContext applied to its own result
TrimAgain ==
    /\ trimmed # NoContext
    /\ retrimmed = NoContext
    /\ retrimmed' = trimContext(trimmed, maxTokens)
    /\ UNCHANGED << db, settings, whatsapp_sessions, resolving, operatorCalls,
                    returned, sent, invocations, maxTokens, context, trimmed,
                    evaluation, registry, auth >>

TrimNext == Trim \/ TrimAgain

TrimSpec == TrimInit /\ [][TrimNext]_vars

\* ------------------------------------------ the pure functions on their own
\* one evaluation: the function, its arguments, its result
Evaluate(name, arguments, value) ==
    /\ fn' = name
    /\ args' = arguments
    /\ out' = value
    /\ UNCHANGED << db, settings, whatsapp_sessions, resolving, operatorCalls,
                    returned, sent, invocations, budgeting, registry, auth >>

\* ---- RetrievalService: scores are hundredths (75 stands for 0.75), a
\* confidence is the exact fraction num / den of a hundredth
Scores == {-20, 0, 40, 75, 100}
SimilarityThresholds == {50, ragSimilarityThreshold}

\* what vectorDB.search may answer: up to MaxHits hits, nearest first; the
\* score is 1 - cosine distance
Hits ==
    { h \in UNION { [1..n -> Scores] : n \in 0..MaxHits } :
        \A k \in 1..(Len(h) - 1) : h[k] >= h[k + 1] }

RECURSIVE SumScores(_)
SumScores(scores) ==
    IF scores = <<>> THEN 0 ELSE Head(scores) + SumScores(Tail(scores))

\* Math.max(...scores)
MaxScore(scores) ==
    CHOOSE m \in { scores[k] : k \in 1..Len(scores) } :
        \A k \in 1..Len(scores) : scores[k] <= m

\* computeAggregateConfidence(results, threshold)
computeAggregateConfidence(scores, threshold) ==
    IF Len(scores) = 0 THEN [num |-> 0, den |-> 1]
    ELSE LET maxScore == MaxScore(scores)
             \* maxScore * 0.6 + avgScore * 0.4
             weighted == [num |-> 6 * maxScore * Len(scores) + 4 * SumScores(scores),
                          den |-> 10 * Len(scores)]
         IN IF maxScore < threshold
            THEN [num |-> weighted.num, den |-> 2 * weighted.den]
            ELSE IF weighted.num > 100 * weighted.den
                 THEN [num |-> 100, den |-> 1]
                 ELSE weighted

\* variant: the confidence is computed over the hits that passed the filter
\* variant: a hit scoring exactly the threshold is dropped
RECURSIVE FilterHits_strict(_, _, _)
FilterHits_strict(scores, similarityThreshold, k) ==
    IF k > Len(scores) THEN << >>
    ELSE (IF scores[k] > similarityThreshold
          THEN << [hit |-> k, chunk_score |-> scores[k]] >> ELSE << >>)
         \o FilterHits_strict(scores, similarityThreshold, k + 1)

\* vectorResults.filter((r) => r.score >= similarityThreshold), from hit k on;
\* enrichResults maps each kept hit to one result, chunk_score its score
RECURSIVE FilterHits(_, _, _)
FilterHits(scores, similarityThreshold, k) ==
    IF k > Len(scores) THEN << >>
    ELSE (IF scores[k] >= similarityThreshold
          THEN << [hit |-> k, chunk_score |-> scores[k]] >> ELSE << >>)
         \o FilterHits(scores, similarityThreshold, k + 1)

retrieve_overFiltered(scores, similarityThreshold) ==
    LET filtered == FilterHits(scores, similarityThreshold, 1)
    IN [ results |-> filtered,
         aggregateConfidence |->
             computeAggregateConfidence(
                 [k \in 1..Len(filtered) |-> filtered[k].chunk_score],
                 similarityThreshold) ]

\* retrieve, after the embedding call: filter the hits by the threshold,
\* enrich them one to one, compute the confidence over all hits
retrieve(scores, similarityThreshold) ==
    LET filtered == FilterHits(scores, similarityThreshold, 1)
    IN [ results |-> filtered,
         aggregateConfidence |->
             computeAggregateConfidence(scores, similarityThreshold) ]

EvalRetrieve ==
    /\ fn = "none"
    /\ \E h \in Hits, t \in SimilarityThresholds :
           Evaluate("retrieve", [scores |-> h, threshold |-> t], retrieve(h, t))

\* ---- the LLM adapters: a response text is what parseConfidence reads of it,
\* the number after "Confidence:" (Undefined without the footer) and whether an
\* uncertainty phrase occurs; numbers are ten-thousandths (ONE stands for 1)
ONE == 10000
WrittenConfidences ==
    { Undefined, 0, 3000, 9500, ONE, 15000, 850000, 1000000, 1500000 }

\* parseConfidence(text)
parseConfidence(text) ==
    IF text.written # Undefined
    THEN IF text.written > ONE THEN text.written \div 100 ELSE text.written
    ELSE IF text.uncertain THEN 3000 ELSE 8500

EvalParseConfidence ==
    /\ fn = "none"
    /\ \E w \in WrittenConfidences, u \in BOOLEAN :
           LET text == [written |-> w, uncertain |-> u]
           IN Evaluate("parseConfidence", text, parseConfidence(text))

\* ---- extractLinkedDocIds: a citation is the number n of its marker "[n]"
\* (parseCitations keeps only such markers), a retrieval result is its doc_id;
\* two results may be chunks of one document
CitationMarkers == 0..(MaxResults + 2)
DocIds == {"docA", "docB"}

SeqsUpTo(S, n) == UNION { [1..k -> S] : k \in 0..n }

EvalExtractLinkedDocIds ==
    /\ fn = "none"
    /\ \E citations \in SeqsUpTo(CitationMarkers, MaxCitations),
          retrievalResults \in SeqsUpTo(DocIds, MaxResults + 1) :
           Evaluate("extractLinkedDocIds",
                    [citations |-> citations, retrievalResults |-> retrievalResults],
                    extractLinkedDocIds(citations, retrievalResults))

\* ---- isWithinBusinessHours: the clock is a weekday and a minute of the day in
\* the organization's timezone; a schedule time "HH:MM" is the pair
\* split(':').map(Number) makes of it. An unknown timezone makes the
\* Intl.DateTimeFormat constructor throw. With hour12: false the 'en-US'
\* formatter resolves the hour cycle to h23 or to h24 depending on the runtime's
\* ECMA-402 edition: the hour after midnight is formatted "00" or "24".
Weekdays == {"monday", "sunday"}
Minutes == {0, 30, 539, 540, 900, 1080, 1081, 1439}
ScheduleEntries ==
    { [start |-> <<9, 0>>, end |-> <<18, 0>>],
      [start |-> <<0, 0>>, end |-> <<23, 59>>] }
\* a schedule is defined on the weekdays that have an entry; a settings object
\* without business_hours behaves as enabled = false (optional chaining)
Schedules == UNION { [days -> ScheduleEntries] : days \in SUBSET Weekdays }
BusinessHours ==
    [ enabled : BOOLEAN, timezoneKnown : BOOLEAN, schedule : Schedules ]

FormattedHours(minuteOfDay) ==
    IF minuteOfDay \div 60 = 0 THEN {0, 24} ELSE { minuteOfDay \div 60 }

isWithinBusinessHours(business_hours, weekday, hour, minute) ==
    IF ~business_hours.enabled THEN TRUE
    ELSE IF ~business_hours.timezoneKnown THEN TRUE
    ELSE IF weekday \notin DOMAIN business_hours.schedule THEN FALSE
    ELSE LET schedule == business_hours.schedule[weekday]
             currentMinutes == hour * 60 + minute
             startMinutes == schedule.start[1] * 60 + schedule.start[2]
             endMinutes == schedule.end[1] * 60 + schedule.end[2]
         IN currentMinutes >= startMinutes /\ currentMinutes <= endMinutes

EvalIsWithinBusinessHours ==
    /\ fn = "none"
    /\ \E business_hours \in BusinessHours, weekday \in Weekdays, now \in Minutes :
           \E hour \in FormattedHours(now) :
               Evaluate("isWithinBusinessHours",
                        [business_hours |-> business_hours, weekday |-> weekday,
                         now |-> now, hour |-> hour],
                        isWithinBusinessHours(business_hours, weekday, hour, now % 60))

\* ---- getConversationHistory: the messages table is a list of rows, a row's id
\* its position; timestamps and the clock are in days. The query keeps the rows
\* of the conversation at or after the cutoff, newest first, at most `limit` of
\* them; rows of equal timestamp come in either order.
MaxRows == 4
ConversationIds == {"convA", "convB"}
Timestamps == {2, 3, 9, 10}
Now == 10
MessageCaps == 1..3
DayWindows == {1, 7}
MessageRows ==
    SeqsUpTo([conversation_id : ConversationIds, timestamp : Timestamps], MaxRows)

Reverse_asSelected(s) == s

Reverse(s) == [k \in 1..Len(s) |-> s[Len(s) + 1 - k]]

SelectHistory(rows, conversationId, cutoffDate, limit) ==
    LET matching == { k \in 1..Len(rows) :
                        /\ rows[k].conversation_id = conversationId
                        /\ rows[k].timestamp >= cutoffDate }
        count == Min(limit, Cardinality(matching))
    IN { q \in [1..count -> matching] :
           /\ \A a, b \in 1..count :
                /\ (a # b => q[a] # q[b])
                /\ (a < b => rows[q[a]].timestamp >= rows[q[b]].timestamp)
           /\ \A k \in matching \ { q[a] : a \in 1..count } :
                \A a \in 1..count : rows[k].timestamp <= rows[q[a]].timestamp }

getConversationHistory(rows, selected) ==
    LET chronological == Reverse(selected)
    IN [k \in 1..Len(chronological) |->
          [id |-> chronological[k], timestamp |-> rows[chronological[k]].timestamp]]

EvalGetConversationHistory ==
    /\ fn = "none"
    /\ \E rows \in MessageRows, conversationId \in ConversationIds,
          maxMessages \in MessageCaps, maxDays \in DayWindows :
           \E selected \in SelectHistory(rows, conversationId, Now - maxDays, maxMessages) :
               Evaluate("getConversationHistory",
                        [rows |-> rows, conversationId |-> conversationId,
                         maxMessages |-> maxMessages, maxDays |-> maxDays],
                        getConversationHistory(rows, selected))

\* ---- assemble: the five sub-fetches are started together and awaited with
\* Promise.all, which rejects as soon as one of them rejects; none of them has
\* a catch of its own. Every query settles whatever the others do.
SubFetches ==
    { "getConversationHistory", "getCustomerProfile", "getSessionMetadata",
      "getAutomationConfig", "getPreviousBotAnswers" }
Settlements == {"fulfilled", "rejected"}

PromiseAll(settled) ==
    IF \E f \in DOMAIN settled : settled[f] = "rejected" THEN "rejected" ELSE "fulfilled"

assemble(settled) ==
    [ settled |-> settled,
      outcome |-> IF PromiseAll(settled) = "rejected" THEN "thrown" ELSE "context" ]

EvalAssemble ==
    /\ fn = "none"
    /\ \E settled \in [SubFetches -> Settlements] :
           Evaluate("assemble", [settled |-> settled], assemble(settled))

\* ---- SessionManager.createSession and the transport's 'message' event: a
\* transport keeps one handler slot per event. createSession fills the QR,
\* ready and disconnected slots; SessionManager has no global message handler
\* and never calls onMessage. A sender is the kind of its WhatsApp id.
Senders == {"customer", "@newsletter", "@g.us", "status@broadcast"}
IGNORED_SOURCES == {"@newsletter", "@g.us", "status@broadcast"}

WhatsAppWebTransport(orgId) ==
    [ orgId |-> orgId, messageHandler |-> "none", qrHandler |-> "none",
      readyHandler |-> "none", disconnectedHandler |-> "none" ]

onMessage(transport, handler) == [transport EXCEPT !.messageHandler = handler]

createSessionTransport(orgId) ==
    [ WhatsAppWebTransport(orgId) EXCEPT !.qrHandler = "sessionManager",
                                         !.readyHandler = "sessionManager",
                                         !.disconnectedHandler = "sessionManager" ]

\* variant: every message goes to the handler
onClientMessage_unfiltered(transport, from) ==
    IF transport.messageHandler = "none" THEN [outcome |-> "dropped"]
    ELSE [outcome |-> "handled", handler |-> transport.messageHandler,
          orgId |-> transport.orgId]

\* client.on('message'): what becomes of one inbound message
onClientMessage(transport, from) ==
    IF from \in IGNORED_SOURCES THEN [outcome |-> "ignored"]
    ELSE IF transport.messageHandler = "none" THEN [outcome |-> "dropped"]
    ELSE [outcome |-> "handled", handler |-> transport.messageHandler,
          orgId |-> transport.orgId]

Transports ==
    { [createdBy |-> "createSession", transport |-> createSessionTransport(org)]
        : org \in OrgIds }
    \cup { [createdBy |-> "caller",
            transport |-> onMessage(WhatsAppWebTransport(org), "handleInboundMessage")]
             : org \in OrgIds }

EvalOnClientMessage ==
    /\ fn = "none"
    /\ \E t \in Transports, from \in Senders :
           Evaluate("onClientMessage", [session |-> t, from |-> from],
                    onClientMessage(t.transport, from))

\* ---- buildUserPrompt: a prompt is the list of its sections, which join()
\* separates by the divider; a section is its heading and what is rendered under
\* it. Timestamps are hours; toLocaleString and toLocaleDateString render them
\* in the process's own time zone (and locale), here an offset in hours.
TimeZoneOffsets == {0, 5}

toLocaleString(timestamp, offset) == [hour |-> timestamp + offset]

toLocaleDateString(timestamp, offset) == [day |-> (timestamp + offset) \div 24]

formatRetrievalResults(results) ==
    [heading |-> "Source Documents (Use ONLY these to answer)", body |-> results]

formatConversationHistory(history, offset) ==
    [heading |-> "Conversation History",
     body |-> [k \in 1..Len(history) |->
                 [role |-> history[k].sender_role,
                  time |-> toLocaleString(history[k].timestamp, offset),
                  text |-> history[k].text]]]

formatCustomerProfile(profile, offset) ==
    [heading |-> "Customer Profile",
     body |-> [phone |-> profile.phone_number,
               since |-> toLocaleDateString(profile.first_seen_at, offset)]]

formatSessionMetadata(session) == [heading |-> "Session Info", body |-> session]

formatAutomationConfig(automation) ==
    [heading |-> "Automation Config", body |-> automation]

formatPreviousBotAnswers(answers) ==
    [heading |-> "Previous Bot Answers", body |-> answers]

buildUserPrompt(customerMessage, c, offset) ==
    (IF Len(c.retrieval_results) > 0
     THEN << formatRetrievalResults(c.retrieval_results) >>
     ELSE << [heading |-> "Source Documents",
              body |-> "No relevant documents found in the knowledge base."] >>)
    \o (IF Len(c.conversation_history) > 0
        THEN << formatConversationHistory(c.conversation_history, offset) >>
        ELSE << >>)
    \o << formatCustomerProfile(c.customer_profile, offset) >>
    \o << formatSessionMetadata(c.session_metadata) >>
    \o << formatAutomationConfig(c.automation_config) >>
    \o (IF Len(c.previous_bot_answers) > 0
        THEN << formatPreviousBotAnswers(c.previous_bot_answers) >>
        ELSE << >>)
    \o << [heading |-> "Current Customer Message", body |-> customerMessage] >>

PromptMessages ==
    [ sender_role : {"customer", "bot"}, timestamp : {20, 30}, text : {"hello"} ]
PromptContexts ==
    [ retrieval_results : SeqsUpTo({"chunk"}, MaxResults),
      conversation_history : SeqsUpTo(PromptMessages, 2),
      customer_profile : [phone_number : {FirstPhone}, first_seen_at : {20}],
      session_metadata : [business_hours_flag : BOOLEAN],
      automation_config : [scope : {"all"}],
      previous_bot_answers : SeqsUpTo({"answer"}, 1) ]
CustomerMessages == {"return policy?", "hi"}

\* the prompt is built in two processes of the same program
EvalBuildUserPrompt ==
    /\ fn = "none"
    /\ \E customerMessage \in CustomerMessages, c \in PromptContexts,
          here \in TimeZoneOffsets, there \in TimeZoneOffsets :
           Evaluate("buildUserPrompt",
                    [customerMessage |-> customerMessage, context |-> c,
                     offsets |-> << here, there >>],
                    << buildUserPrompt(customerMessage, c, here),
                       buildUserPrompt(customerMessage, c, there) >>)



\* ---- chunkText: a text is its length and the characters at the positions
\* that matter (0-based); everywhere else it has letters. "\n" stands for the
\* white space that trim() removes. A chunk is the range [from, to) of the text
\* it holds after trim(). The loop is evaluated one iteration at a time: `out`
\* holds start, chunks and whether the function has returned.
CHUNK_SIZE == 500
CHUNK_OVERLAP == 100

TextLengths == {0, 300, 500, 501, 600, 1001}
MarkPositions == {0, 251, 400, 499, 500, 900}
Characters == {"a", ".", "\n"}
Texts ==
    UNION { { [length |-> n, chars |-> m] :
                m \in [{ p \in MarkPositions : p < n } -> Characters] } :
            n \in TextLengths }

charAt(text, p) == IF p \in DOMAIN text.chars THEN text.chars[p] ELSE "a"

\* text.lastIndexOf(ch, fromIndex): the last occurrence at or before fromIndex
lastIndexOf(text, ch, fromIndex) ==
    LET found == { p \in DOMAIN text.chars : text.chars[p] = ch /\ p <= fromIndex }
    IN IF found = {} THEN -1 ELSE CHOOSE p \in found : \A q \in found : q <= p

\* trim(): the first position at or after p, before `to`, that holds no white space
RECURSIVE trimStart(_, _, _)
trimStart(text, p, to) ==
    IF p < to /\ charAt(text, p) = "\n" THEN trimStart(text, p + 1, to) ELSE p

\* trim(): the end of the last stretch before `to`, after `from`, that holds no white space
RECURSIVE trimEnd(_, _, _)
trimEnd(text, from, to) ==
    IF from < to /\ charAt(text, to - 1) = "\n" THEN trimEnd(text, from, to - 1) ELSE to

\* text.slice(start, chunkEnd).trim()
sliceTrim(text, start, chunkEnd) ==
    [from |-> trimStart(text, start, chunkEnd),
     to |-> trimEnd(text, trimStart(text, start, chunkEnd), chunkEnd)]

\* return chunks.filter((c) => c.length > 0)
ReturnChunks(chunks) ==
    [start |-> 0, chunks |-> SelectSeq(chunks, LAMBDA c : c.to - c.from > 0),
     returned |-> TRUE]

\* one test of `while (start < text.length)` and, if it holds, one loop body
chunkIteration(text, s) ==
    IF ~(s.start < text.length) THEN [ReturnChunks(s.chunks) EXCEPT !.start = s.start]
    ELSE
    LET end == Min(s.start + CHUNK_SIZE, text.length)
        breakPoint == Max(lastIndexOf(text, ".", end), lastIndexOf(text, "\n", end))
        chunkEnd == IF end < text.length /\ 2 * breakPoint > 2 * s.start + CHUNK_SIZE
                    THEN breakPoint + 1
                    ELSE end
        chunks == Append(s.chunks, sliceTrim(text, s.start, chunkEnd))
        start == Max(chunkEnd - CHUNK_OVERLAP, 0)
    IN IF chunkEnd >= text.length
       THEN [ReturnChunks(chunks) EXCEPT !.start = start]
       ELSE [start |-> start, chunks |-> chunks, returned |-> FALSE]

\* chunkText(text) is called: start = 0, no chunks yet
EvalChunkText ==
    /\ fn = "none"
    /\ \E text \in Texts :
           Evaluate("chunkText", text,
                    [start |-> 0, chunks |-> << >>, returned |-> FALSE])

ChunkTextIteration ==
    /\ fn = "chunkText"
    /\ ~out.returned
    /\ Evaluate("chunkText", args, chunkIteration(args, out))

FnNext ==
    \/ EvalRetrieve
    \/ EvalParseConfidence
    \/ EvalExtractLinkedDocIds
    \/ EvalIsWithinBusinessHours
    \/ EvalGetConversationHistory
    \/ EvalAssemble
    \/ EvalOnClientMessage
    \/ EvalBuildUserPrompt
    \/ EvalChunkText
    \/ ChunkTextIteration

FnSpec == Init /\ [][FnNext]_vars

\* ------------------------- SessionManager: the registry of one organization
\* createSession and destroySession calls (from the routes) run concurrently
\* and are suspended at every await; a transport's client may emit
\* 'disconnected' at any time while it is live.
RegistryUnchanged ==
    UNCHANGED << db, settings, whatsapp_sessions, resolving, operatorCalls,
                 returned, sent, invocations, budgeting, evaluation, auth >>

At(k, op, next, transport) ==
    sessionCalls' = [sessionCalls EXCEPT
                        ![k] = [op |-> op, pc |-> next, transport |-> transport]]

\* destroySession up to `await transport.disconnect()`, or, without a
\* registered transport, up to its `await query(UPDATE ...)`
EnterDestroySession(k, op) ==
    IF sessions # Null
    THEN At(k, op, "disconnect", sessions)
    ELSE At(k, op, "updateStatus", Null)

\* createSession: `if (this.sessions.has(orgId)) await this.destroySession(orgId)`,
\* else on to `await queryOne(SELECT id FROM whatsapp_sessions ...)`
BeginCreateSession(k) ==
    /\ sessionCalls[k].pc = "idle"
    /\ IF sessions # Null
       THEN EnterDestroySession(k, "createSession")
       ELSE At(k, "createSession", "selectRow", Null)
    /\ UNCHANGED << sessions, transports >>
    /\ RegistryUnchanged

\* destroySession called by a route
BeginDestroySession(k) ==
    /\ sessionCalls[k].pc = "idle"
    /\ EnterDestroySession(k, "destroySession")
    /\ UNCHANGED << sessions, transports >>
    /\ RegistryUnchanged

\* destroySession after `await transport.disconnect()`: the client is
\* destroyed, then this.sessions.delete(orgId) and the callbacks' deletion
AfterDisconnect(k) ==
    /\ sessionCalls[k].pc = "disconnect"
    /\ transports' = [transports EXCEPT ![sessionCalls[k].transport] = "disconnected"]
    /\ sessions' = Null
    /\ At(k, sessionCalls[k].op, "updateStatus", Null)
    /\ RegistryUnchanged

\* destroySession after its `await query(UPDATE whatsapp_sessions ...)`
AfterUpdateStatus(k) ==
    /\ sessionCalls[k].pc = "updateStatus"
    /\ At(k, sessionCalls[k].op,
          IF sessionCalls[k].op = "createSession" THEN "selectRow" ELSE "done", Null)
    /\ UNCHANGED << sessions, transports >>
    /\ RegistryUnchanged

\* createSession after `await queryOne(SELECT id FROM whatsapp_sessions ...)`
AfterSelectRow(k) ==
    /\ sessionCalls[k].pc = "selectRow"
    /\ At(k, "createSession", "writeRow", Null)
    /\ UNCHANGED << sessions, transports >>
    /\ RegistryUnchanged

\* createSession after the UPDATE or INSERT of the row: new transport, its
\* events wired, this.sessions.set(orgId, transport), initialize() started
RegisterTransport(k) ==
    /\ sessionCalls[k].pc = "writeRow"
    /\ transports' = Append(transports, "live")
    /\ sessions' = Len(transports) + 1
    /\ At(k, "createSession", "done", Len(transports) + 1)
    /\ RegistryUnchanged

\* transport.onDisconnected((reason) => { ...; this.sessions.delete(orgId) }) of
\* transport t (each call creates at most one transport)
onDisconnected(t) ==
    /\ t \in DOMAIN transports
    /\ transports[t] = "live"
    /\ transports' = [transports EXCEPT ![t] = "disconnected"]
    /\ sessions' = Null
    /\ UNCHANGED sessionCalls
    /\ RegistryUnchanged

RegistryNext ==
    \/ \E k \in SessionCallers :
         \/ BeginCreateSession(k)
         \/ BeginDestroySession(k)
         \/ AfterDisconnect(k)
         \/ AfterUpdateStatus(k)
         \/ AfterSelectRow(k)
         \/ RegisterTransport(k)
    \/ \E t \in SessionCallers : onDisconnected(t)

RegistrySpec == Init /\ [][RegistryNext]_vars

\* ------------------------------ auth.service: refresh-token rotation
\* Requests to POST /api/auth/refresh run concurrently; each query of refresh()
\* is one statement on the table, and the request is suspended between them.
\* A row is a token of the one user: `revoked` says that revoked_at is set,
\* `origin` records what inserted it. Tokens do not expire within a behaviour.
AuthUnchanged ==
    UNCHANGED << db, settings, whatsapp_sessions, resolving, operatorCalls,
                 returned, sent, invocations, budgeting, evaluation, registry >>

Reply(k, next, status) ==
    refreshCalls' = [refreshCalls EXCEPT ![k].pc = next, ![k].status = status]

\* login(): INSERT INTO refresh_tokens (...) of a fresh, unrevoked token
login ==
    /\ Cardinality({ t \in 1..Len(refresh_tokens) :
                       refresh_tokens[t].origin = "login" }) < MaxLogins
    /\ refresh_tokens' = Append(refresh_tokens, [revoked |-> FALSE, origin |-> "login"])
    /\ UNCHANGED refreshCalls
    /\ AuthUnchanged

\* the route reads the cookie and calls refresh(): a token the server issued
\* passes verifyRefreshTokenJWT, anything else is answered 401
BeginRefresh(k) ==
    /\ refreshCalls[k].pc = "idle"
    /\ \E rawRefreshToken \in (1..Len(refresh_tokens)) \cup {Null} :
          refreshCalls' = [refreshCalls EXCEPT
              ![k] = IF rawRefreshToken = Null
                     THEN [pc |-> "done", token |-> Null, status |-> 401]
                     ELSE [pc |-> "select", token |-> rawRefreshToken, status |-> 0]]
    /\ UNCHANGED refresh_tokens
    /\ AuthUnchanged

\* SELECT id, user_id, revoked_at FROM refresh_tokens WHERE token_hash = $1 ...;
\* if (!tokenRecord || tokenRecord.revoked_at) throw new AuthError(..., 401)
SelectToken(k) ==
    /\ refreshCalls[k].pc = "select"
    /\ IF refresh_tokens[refreshCalls[k].token].revoked
       THEN Reply(k, "done", 401)
       ELSE Reply(k, "update", 0)
    /\ UNCHANGED refresh_tokens
    /\ AuthUnchanged

\* UPDATE refresh_tokens SET revoked_at = NOW() WHERE id = $1
RevokeToken(k) ==
    /\ refreshCalls[k].pc = "update"
    /\ refresh_tokens' = [refresh_tokens EXCEPT ![refreshCalls[k].token].revoked = TRUE]
    /\ Reply(k, "findUser", 0)
    /\ AuthUnchanged

\* findUserById(payload.sub): the user may have been disabled meanwhile
FindUser(k) ==
    /\ refreshCalls[k].pc = "findUser"
    /\ \E is_active \in BOOLEAN :
          IF is_active THEN Reply(k, "insert", 0) ELSE Reply(k, "done", 401)
    /\ UNCHANGED refresh_tokens
    /\ AuthUnchanged

\* INSERT INTO refresh_tokens (...) of the new token; the route sets the
\* cookie and answers 200 with the access token
InsertToken(k) ==
    /\ refreshCalls[k].pc = "insert"
    /\ refresh_tokens' = Append(refresh_tokens, [revoked |-> FALSE, origin |-> "refresh"])
    /\ Reply(k, "done", 200)
    /\ AuthUnchanged

RefreshNext ==
    \/ login
    \/ \E k \in RefreshCallers :
         \/ BeginRefresh(k)
         \/ SelectToken(k)
         \/ RevokeToken(k)
         \/ FindUser(k)
         \/ InsertToken(k)

RefreshSpec == Init /\ [][RefreshNext]_vars

\* ------------------------------------------------------ what an invocation did
AfterSave ==
    { "retrieve", "assemble", "llm", "saveBot", "sendReply", "saveFallback",
      "sendFallback", "insertEscalation", "updateConversation" }

Downstream ==
    { "retrieve", "assemble", "llm", "saveBot", "send", "insertEscalation",
      "updateConversation" }

MessagesBy(i, role) ==
    { k \in 1..Len(messages) : messages[k].by = i /\ messages[k].sender_role = role }

InboundBy(i) ==
    { k \in MessagesBy(i, "customer") :
        messages[k].direction = "inbound" /\ messages[k].text = Body(i) }

BotBy(i) == MessagesBy(i, "bot")

EscalationsBy(i) == { e \in 1..Len(escalations) : escalations[e].by = i }

SentBy(i) == { k \in 1..Len(sent) : sent[k].by = i }

Calls(i, event) == { k \in 1..Len(log[i]) : log[i][k] = event }

\* ---------------------------------------------------------------------- claims

\* C1: an invocation whose organization exists and whose customer and
\* conversation were resolved persists exactly one inbound customer row carrying
\* its message, in the resolved conversation, before any retrieval, assembly,
\* LLM, bot insert, escalation or transport call, and the row stays whatever
\* fails later.
C1_InboundPersistedFirst ==
    \A i \in Procs :
        /\ ( \/ pc[i] \in AfterSave
             \/ pc[i] = "done" /\ result[i] \notin {"orgNotFound", "customerFailed"} )
           => /\ Cardinality(InboundBy(i)) = 1
              /\ Cardinality(MessagesBy(i, "customer")) = 1
        /\ pc[i] \in AfterSave
           => \A k \in InboundBy(i) : messages[k].conversation_id = frame[i].conv.id
        /\ \A k \in 1..Len(log[i]) :
              log[i][k] \in Downstream
              => k > 1 /\ log[i][1] = "saveInbound" /\ InboundBy(i) # {}

C1_Witness ==
    \E i \in Procs :
        /\ result[i] \in {"retrievalFailed", "replySendFailed", "fallbackSendFailed"}
        /\ Cardinality(InboundBy(i)) = 1

\* C2: an invocation that resolved an escalated conversation persists the
\* inbound message and then makes no retrieval call, no LLM call, no bot insert,
\* no escalation and no send.
C2_EscalatedMute ==
    \A i \in Procs :
        /\ pc[i] \in AfterSave => frame[i].conv.status # "escalated"
        /\ result[i] = "skippedEscalated"
           => /\ log[i] = << "saveInbound" >>
              /\ Cardinality(InboundBy(i)) = 1
              /\ BotBy(i) = {}
              /\ EscalationsBy(i) = {}
              /\ SentBy(i) = {}

C2_Witness ==
    \E i \in Procs : result[i] = "skippedEscalated" /\ InboundBy(i) # {}

\* C3 (as claimed): whenever the LLM's confidence is below the organization's
\* threshold, the invocation persists exactly one bot message with the fallback
\* text, sends nothing but that text, creates exactly one escalation with the
\* reason "LLM confidence too low: <confidence>" and escalates the conversation.
C3_LowConfidenceEscalates ==
    \A i \in Procs :
        ( /\ pc[i] = "done"
          /\ reported[i] # Undefined
          /\ reported[i] < settings.confidence_threshold )
        => /\ Cardinality(BotBy(i)) = 1
           /\ \A k \in BotBy(i) : messages[k].text = fallbackMessage
           /\ \A k \in SentBy(i) : sent[k].text = fallbackMessage
           /\ Cardinality(EscalationsBy(i)) = 1
           /\ \A e \in EscalationsBy(i) :
                escalations[e].reason.confidence = reported[i]
           /\ Calls(i, "updateConversation") # {}

\* C4 (as claimed): whenever the LLM's confidence is at or above the
\* organization's threshold, the invocation persists exactly one bot message
\* carrying that confidence and the resolved citations, creates no escalation
\* and does not touch the conversation's status.
C4_HighConfidenceReplies ==
    \A i \in Procs :
        /\ ( /\ pc[i] = "done"
             /\ reported[i] # Undefined
             /\ reported[i] >= settings.confidence_threshold )
           => /\ Cardinality(BotBy(i)) = 1
              /\ \A k \in BotBy(i) : messages[k].llm_confidence = reported[i]
              /\ EscalationsBy(i) = {}
              /\ Calls(i, "updateConversation") = {}
        /\ pc[i] = "sendReply"
           => \A k \in BotBy(i) :
                messages[k].linked_doc_ids =
                    extractLinkedDocIds(frame[i].llm.citations,
                                        frame[i].retrieval.results)

\* C5 (as claimed): the fallback path is taken if and only if the LLM's
\* confidence is below the organization's own configured threshold, 0 included.
C5_GateUsesOrgThreshold ==
    \A i \in Procs :
        /\ pc[i] \in {"saveFallback", "sendFallback", "insertEscalation",
                      "updateConversation"}
           => reported[i] < settings.confidence_threshold
        /\ pc[i] \in {"saveBot", "sendReply"}
           => reported[i] >= settings.confidence_threshold

\* C6 (as claimed): every invocation on a non-escalated conversation of a known
\* organization calls the LLM exactly once, whatever retrieval did.
C6_LLMCalledOnce ==
    \A i \in Procs :
        ( /\ pc[i] = "done"
          /\ result[i] \notin {"orgNotFound", "customerFailed", "skippedEscalated"} )
        => Cardinality(Calls(i, "llm")) = 1

\* C7: an invocation for an organization without a row returns without
\* creating any customer, conversation, message or escalation and without
\* calling retrieval, the LLM or the transport.
C7_UnknownOrgNoEffects ==
    /\ \A i \in Procs :
        /\ pc[i] \notin {"idle", "selectOrg", "done"} => frame[i].orgId = KnownOrg
        /\ result[i] = "orgNotFound"
           => /\ log[i] = << >>
              /\ MessagesBy(i, "customer") = {}
              /\ BotBy(i) = {}
              /\ EscalationsBy(i) = {}
              /\ SentBy(i) = {}
    /\ \A c \in 1..Len(customers) : customers[c].org_id = KnownOrg
    /\ \A c \in 1..Len(conversations) : conversations[c].org_id = KnownOrg

C7_Witness ==
    \E i \in Procs : result[i] = "orgNotFound" /\ log[i] = << >>

\* C8 (as claimed): no (organization, customer) pair ever has two conversations
\* whose status is active or escalated.
C8_OneOpenConversation ==
    \A c, d \in 1..Len(conversations) :
        ( /\ conversations[c].org_id = conversations[d].org_id
          /\ conversations[c].customer_id = conversations[d].customer_id
          /\ conversations[c].status \in {"active", "escalated"}
          /\ conversations[d].status \in {"active", "escalated"} )
        => c = d

\* C9 (as claimed): of two messages of one organization handled concurrently,
\* also from the same previously unknown phone, both end up persisted.
C9_BothInboundPersisted ==
    \A i \in Procs :
        (pc[i] = "done" /\ result[i] # "orgNotFound") => InboundBy(i) # {}

\* C10: an invocation whose LLM call failed (called, no response) has ended
\* there: it has persisted no bot message, sent nothing, created no escalation
\* and not touched the conversation's status, and its inbound message is stored.
C10_LLMFailureNoReply ==
    \A i \in Procs :
        (Calls(i, "llm") # {} /\ reported[i] = Undefined)
        => /\ pc[i] = "done"
           /\ result[i] = "llmFailed"
           /\ BotBy(i) = {}
           /\ SentBy(i) = {}
           /\ EscalationsBy(i) = {}
           /\ Calls(i, "updateConversation") = {}
           /\ Cardinality(InboundBy(i)) = 1
           /\ log[i][Len(log[i])] = "llm"

C10_Witness ==
    \E i \in Procs :
        result[i] = "llmFailed" /\ Cardinality(InboundBy(i)) = 1 /\ BotBy(i) = {}

\* C11 (as claimed): a send that throws leaves the bot or fallback message
\* stored and, on the low-confidence path, the escalation is still created and
\* the conversation still escalated.
C11_SendFailureNonFatal ==
    \A i \in Procs :
        /\ result[i] = "replySendFailed" => Cardinality(BotBy(i)) = 1
        /\ result[i] = "fallbackSendFailed"
           => /\ Cardinality(BotBy(i)) = 1
              /\ EscalationsBy(i) # {}
              /\ Calls(i, "updateConversation") # {}

\* C12 (as claimed): an invocation that called retrieval, whether or not the
\* call failed, goes on to assemble the context and to call the LLM.
C12_RetrievalFailureDegrades ==
    \A i \in Procs :
        (pc[i] = "done" /\ Calls(i, "retrieve") # {})
        => /\ Calls(i, "assemble") # {}
           /\ Calls(i, "llm") # {}

\* C13: the step in which a collaborator call of an invocation fails ends that
\* invocation normally (in the catch), writes nothing to storage, sends nothing
\* and leaves every other invocation where it was.
C13_FailureContained ==
    [][ LET Failures == { "customerFailed", "retrievalFailed", "llmFailed",
                          "replySendFailed", "fallbackSendFailed" }
        IN \A i \in Procs :
             (result[i] \notin Failures /\ result'[i] \in Failures)
             => /\ pc'[i] = "done"
                /\ db' = db
                /\ sent' = sent
                /\ \A j \in Procs \ {i} :
                      /\ pc'[j] = pc[j]
                      /\ frame'[j] = frame[j]
                      /\ result'[j] = result[j] ]_vars

C13_Witness ==
    \E i, j \in Procs :
        /\ i < j
        /\ result[i] \in {"retrievalFailed", "llmFailed", "fallbackSendFailed"}
        /\ result[j] = "replied"
        /\ Cardinality(InboundBy(j)) = 1 /\ Cardinality(BotBy(j)) = 1

\* C14 (as claimed): an escalation is created pending and its status never
\* moves backwards: a resolved escalation stays resolved and an escalation in
\* progress never becomes pending again.
C14_StatusOnlyForward ==
    [][ /\ \A e \in 1..Len(escalations) :
             /\ escalations[e].status = "resolved"
                => escalations'[e].status = "resolved"
             /\ escalations[e].status = "in_progress"
                => escalations'[e].status # "pending"
        /\ \A e \in (Len(escalations) + 1)..Len(escalations') :
             escalations'[e].status = "pending" ]_vars

C16_UnknownIdNoEffect ==
    [][ (returned # Null /\ returned' = Null)
        => /\ escalations' = escalations
           /\ conversations' = conversations
           /\ recency' = recency
           /\ resolving' = resolving ]_vars

C16_Witness ==
    /\ returned = Null
    /\ \E e \in 1..Len(escalations) : escalations[e].status = "pending"
    /\ \E c \in 1..Len(conversations) : conversations[c].status = "escalated"

\* C21 (as claimed): the aggregate retrieval confidence and the confidence
\* parsed from a response are within [0,1], whatever the scores and whatever
\* number the response carries after "Confidence:".
C21_ConfidenceBounds ==
    /\ fn = "parseConfidence" => (out >= 0 /\ out <= ONE)
    /\ fn = "retrieve"
       => /\ out.aggregateConfidence.num >= 0
          /\ out.aggregateConfidence.num <= 100 * out.aggregateConfidence.den

\* C22: for a non-empty hit list the aggregate confidence is 0.6 max + 0.4 avg
\* over all hits, halved exactly when max is below the threshold; for an empty
\* list it is 0 with empty results.
C22_AggregateFormula ==
    fn = "retrieve" =>
        LET s == args.scores
            n == Len(s)
            got == out.aggregateConfidence
            \* (0.6 max + 0.4 sum / n) * penalty, as num / den
            num == (6 * MaxScore(s) * n + 4 * SumScores(s))
            den == 10 * n * (IF MaxScore(s) < args.threshold THEN 2 ELSE 1)
        IN IF n = 0
           THEN got.num = 0 /\ out.results = <<>>
           ELSE got.num * den = num * got.den

C22_Witness ==
    /\ fn = "retrieve"
    /\ Len(out.results) > 0
    /\ Len(out.results) < Len(args.scores)
    /\ out.aggregateConfidence.num > 0

\* C23: the result holds exactly the doc ids of the results cited by a marker
\* n with 1 <= n <= number of results, each once, ordered by the first marker
\* that cites it; markers out of range, [0] included, contribute nothing.
C23_LinkedDocIds ==
    fn = "extractLinkedDocIds" =>
        LET cs == args.citations
            rs == args.retrievalResults
            InRange(k) == cs[k] >= 1 /\ cs[k] <= Len(rs)
            Citing(d) == { k \in 1..Len(cs) : InRange(k) /\ rs[cs[k]] = d }
            First(d) == CHOOSE k \in Citing(d) : \A l \in Citing(d) : k <= l
        IN /\ { out[p] : p \in 1..Len(out) } = { d \in DocIds : Citing(d) # {} }
           /\ \A p, q \in 1..Len(out) :
                /\ (p # q => out[p] # out[q])
                /\ (p < q => First(out[p]) < First(out[q]))

C23_Witness ==
    /\ fn = "extractLinkedDocIds"
    /\ Len(out) = 2
    /\ Len(args.citations) = MaxCitations
    /\ \E k \in 1..Len(args.citations) : args.citations[k] = 0
    /\ out[1] = args.retrievalResults[2]

\* C24 (as claimed): the business-hours flag is true when business hours are
\* disabled or the computation fails, false when the weekday has no schedule
\* entry, and otherwise true exactly when start <= current time <= end.
C24_BusinessHoursFlag ==
    fn = "isWithinBusinessHours" =>
        LET bh == args.business_hours
        IN out = IF ~bh.enabled THEN TRUE
                 ELSE IF ~bh.timezoneKnown THEN TRUE
                 ELSE IF args.weekday \notin DOMAIN bh.schedule THEN FALSE
                 ELSE LET entry == bh.schedule[args.weekday]
                      IN /\ entry.start[1] * 60 + entry.start[2] <= args.now
                         /\ args.now <= entry.end[1] * 60 + entry.end[2]

\* C25: the history holds at most N messages, all of the conversation and at
\* or after now - D days, oldest first; a message of the conversation within
\* the window is left out only when the history is full and the message is no
\* newer than the oldest one kept.
C25_HistoryWindow ==
    fn = "getConversationHistory" =>
        LET rows == args.rows
            kept == { out[p].id : p \in 1..Len(out) }
            InWindow(k) == /\ rows[k].conversation_id = args.conversationId
                           /\ rows[k].timestamp >= Now - args.maxDays
        IN /\ Len(out) <= args.maxMessages
           /\ \A p \in 1..Len(out) :
                /\ out[p].id \in 1..Len(rows)
                /\ InWindow(out[p].id)
                /\ out[p].timestamp = rows[out[p].id].timestamp
           /\ \A p, q \in 1..Len(out) :
                p < q => out[p].id # out[q].id /\ out[p].timestamp <= out[q].timestamp
           /\ \A k \in 1..Len(rows) :
                (InWindow(k) /\ k \notin kept)
                    => Len(out) = args.maxMessages /\ rows[k].timestamp <= out[1].timestamp

C25_Witness ==
    /\ fn = "getConversationHistory"
    /\ Len(out) = args.maxMessages
    /\ Len(out) >= 2
    /\ out[1].timestamp < out[Len(out)].timestamp
    /\ \E k \in 1..Len(args.rows) :
         /\ args.rows[k].conversation_id = args.conversationId
         /\ args.rows[k].timestamp >= Now - args.maxDays
         /\ \A p \in 1..Len(out) : out[p].id # k
    /\ \E k \in 1..Len(args.rows) :
         /\ args.rows[k].conversation_id = args.conversationId
         /\ args.rows[k].timestamp < Now - args.maxDays

\* C26 (as claimed): when exactly one of the five sub-fetches fails, the other
\* four complete and assemble still returns a context.
C26_SingleFetchFailureTolerated ==
    (/\ fn = "assemble"
     /\ Cardinality({ f \in SubFetches : args.settled[f] = "rejected" }) = 1)
        => /\ Cardinality({ f \in SubFetches : out.settled[f] = "fulfilled" }) = 4
           /\ out.outcome = "context"

\* C27 (as claimed): a customer message received by the transport of a session
\* made by createSession is handed to handleInboundMessage with the session's
\* organization id, and is never dropped for want of a message handler.
C27_SessionMessagesDelivered ==
    (/\ fn = "onClientMessage"
     /\ args.session.createdBy = "createSession"
     /\ args.from = "customer")
        => /\ out.outcome = "handled"
           /\ out.handler = "handleInboundMessage"
           /\ out.orgId = args.session.transport.orgId

\* C28 (as claimed): the prompt's sections are the sources (or the
\* no-documents line), the conversation history, the customer profile, the
\* session info, the automation config, the previous bot answers when there are
\* any, and the current customer message, in this order; and the same context
\* and message always give the same prompt.
C28_PromptSections ==
    fn = "buildUserPrompt" =>
        LET c == args.context
            prompt == out[1]
            headings == [k \in 1..Len(prompt) |-> prompt[k].heading]
        IN /\ headings =
                << IF Len(c.retrieval_results) > 0
                   THEN "Source Documents (Use ONLY these to answer)"
                   ELSE "Source Documents",
                   "Conversation History", "Customer Profile", "Session Info",
                   "Automation Config" >>
                \o (IF Len(c.previous_bot_answers) > 0
                    THEN << "Previous Bot Answers" >> ELSE << >>)
                \o << "Current Customer Message" >>
           /\ prompt[Len(prompt)].body = args.customerMessage
           /\ out[1] = out[2]

\* C29: in every invocation each call of transport.sendMessage comes after the
\* insertion of a bot message, and every text that was sent is the text of a
\* bot message the same invocation has stored.
C29_PersistBeforeSend ==
    \A i \in Procs :
        /\ \A k \in Calls(i, "send") : \E j \in Calls(i, "saveBot") : j < k
        /\ \A s \in SentBy(i) :
             \E m \in BotBy(i) : messages[m].text = sent[s].text

C29_Witness ==
    \E i, j \in Procs :
        /\ \E s \in SentBy(i) : sent[s].text = Content(i)
        /\ \E s \in SentBy(j) : sent[s].text = fallbackMessage

\* C30: an invocation stores at most one bot message and calls
\* transport.sendMessage at most once, whatever path it takes.
C30_AtMostOneReply ==
    \A i \in Procs :
        /\ Cardinality(BotBy(i)) <= 1
        /\ Cardinality(Calls(i, "send")) <= 1
        /\ Cardinality(SentBy(i)) <= 1

C30_Witness ==
    \E i, j \in Procs :
        /\ pc[i] = "done" /\ result[i] = "escalated"
        /\ Cardinality(BotBy(i)) = 1 /\ Cardinality(SentBy(i)) = 1
        /\ pc[j] = "done" /\ result[j] \in {"replySendFailed", "fallbackSendFailed"}
        /\ Cardinality(BotBy(j)) = 1 /\ Cardinality(Calls(j, "send")) = 1
        /\ SentBy(j) = {}

\* C31: the bot message of an invocation whose LLM confidence was below the
\* threshold has no linked documents and the confidence 0.1, whatever the LLM
\* reported and cited.
C31_FallbackRowSentinel ==
    \A i \in Procs :
        (reported[i] # Undefined /\ reported[i] < confidenceThreshold)
            => \A m \in BotBy(i) :
                 /\ messages[m].linked_doc_ids = << >>
                 /\ messages[m].llm_confidence = FallbackConfidence
                 /\ messages[m].text = fallbackMessage

C31_Witness ==
    \E i \in Procs :
        /\ pc[i] = "sendFallback"
        /\ BotBy(i) # {}
        /\ reported[i] # FallbackConfidence
        /\ extractLinkedDocIds(frame[i].llm.citations, frame[i].retrieval.results)
             # << >>

\* C32: the results are the hits scoring at least the threshold, each once,
\* in the order of the search, with their scores; a hit below the threshold is
\* not among them and a hit scoring exactly the threshold is.
C32_ThresholdFilter ==
    fn = "retrieve" =>
        LET scores == args.scores
            results == out.results
            kept == { k \in 1..Len(scores) : scores[k] >= args.threshold }
        IN /\ { results[p].hit : p \in 1..Len(results) } = kept
           /\ \A p, q \in 1..Len(results) : p < q => results[p].hit < results[q].hit
           /\ \A p \in 1..Len(results) :
                results[p].chunk_score = scores[results[p].hit]

C32_Witness ==
    /\ fn = "retrieve"
    /\ \E p \in 1..Len(out.results) : out.results[p].chunk_score = args.threshold
    /\ Len(out.results) >= 2
    /\ Len(out.results) < Len(args.scores)

\* C33: every escalation is pending, in progress or resolved; none is ever
\* dismissed or assigned.
C33_EscalationStatuses ==
    \A e \in 1..Len(escalations) :
        escalations[e].status \in {"pending", "in_progress", "resolved"}

C33_Witness ==
    \E e \in 1..Len(escalations) :
        /\ escalations[e].status = "resolved"
        /\ escalations[e].assigned_to \in Operators

\* C34: a message from a newsletter, a group or the status broadcast is not
\* handed to the message handler, registered or not.
C34_IgnoredSourcesNotHandled ==
    (/\ fn = "onClientMessage"
     /\ args.from \in {"@newsletter", "@g.us", "status@broadcast"})
        => out = [outcome |-> "ignored"]

C34_Witness ==
    /\ fn = "onClientMessage"
    /\ args.from = "@g.us"
    /\ args.session.transport.messageHandler = "handleInboundMessage"
    /\ out.outcome = "ignored"

\* C35 (as claimed): when no pipeline run and no resolve call is under way, a
\* conversation is escalated exactly when one of its escalations is pending or
\* in progress.
C35_EscalatedIffOpenEscalation ==
    (/\ \A i \in Procs : pc[i] \in {"idle", "done"}
     /\ resolving = Null)
        => \A c \in 1..Len(conversations) :
             conversations[c].status = "escalated"
                 <=> \E e \in 1..Len(escalations) :
                       /\ escalations[e].conversation_id = c
                       /\ escalations[e].status \in {"pending", "in_progress"}

\* C36 (as claimed): while a conversation is escalated (createEscalation has
\* completed for it and no resolve has completed since) no step stores a bot
\* message in it, sends a text in it or creates another escalation for it.
C36_EscalatedConversationQuiet ==
    [][ \A c \in 1..Len(conversations) :
          conversations[c].status = "escalated"
              => /\ \A m \in (Len(messages) + 1)..Len(messages') :
                      ~ (/\ messages'[m].conversation_id = c
                         /\ messages'[m].sender_role = "bot")
                 /\ \A k \in (Len(sent) + 1)..Len(sent') :
                      frame[sent'[k].by].conv.id # c
                 /\ \A e \in (Len(escalations) + 1)..Len(escalations') :
                      escalations'[e].conversation_id # c ]_vars

\* C37 (as claimed): when no createSession or destroySession call is under
\* way, at most one transport of the organization is live and every live
\* transport is the one getTransport returns.
C37_OneLiveRegisteredTransport ==
    (\A k \in SessionCallers : sessionCalls[k].pc \in {"idle", "done"})
        => /\ Cardinality({ t \in 1..Len(transports) : transports[t] = "live" }) <= 1
           /\ \A t \in 1..Len(transports) : transports[t] = "live" => sessions = t

\* C38: whatever the budget, for every citation [n] of the LLM the document
\* linked to the bot message (resolved at message-pipeline.ts:146 against the
\* results as retrieved) is the doc_id of the source rendered as entry [n] of
\* the prompt (built from the trimmed context): a marker naming a rendered
\* entry links that entry's document, a marker naming none links nothing, and
\* the rendered list has the retrieved sources in their order.
C38_CitationsAligned ==
    trimmed # NoContext =>
        LET retrievalResults ==
                [k \in 1..Len(context.retrieval_results) |->
                    context.retrieval_results[k].doc_id]
            rendered == formatRetrievalResults(trimmed.retrieval_results).body
        IN /\ \A n \in CitationMarkers :
                extractLinkedDocIds(<< n >>, retrievalResults)
                    = IF n \in 1..Len(rendered) THEN << rendered[n].doc_id >>
                      ELSE << >>
           /\ \A citations \in SeqsUpTo(CitationMarkers, MaxCitations) :
                extractLinkedDocIds(citations, retrievalResults)
                    = extractLinkedDocIds(citations,
                          [k \in 1..Len(rendered) |-> rendered[k].doc_id])

C38_Witness ==
    /\ trimmed # NoContext
    /\ Len(context.retrieval_results) = MaxResults
    /\ \E k \in 1..Len(trimmed.retrieval_results) :
          trimmed.retrieval_results[k].chunk_text.len
              < context.retrieval_results[k].chunk_text.len
    /\ Len(trimmed.conversation_history) < Len(context.conversation_history)
    /\ extractLinkedDocIds(<< MaxResults, 1 >>,
           [k \in 1..Len(context.retrieval_results) |->
               context.retrieval_results[k].doc_id])
         = << formatRetrievalResults(trimmed.retrieval_results).body[MaxResults].doc_id,
              formatRetrievalResults(trimmed.retrieval_results).body[1].doc_id >>

\* C39: a refresh token is exchanged successfully at most once: of all the
\* refresh requests presenting one token, however they interleave, at most one
\* is answered 200 with a new token pair.
C39_RefreshTokenSingleUse ==
    \A t \in 1..Len(refresh_tokens) :
        Cardinality({ k \in RefreshCallers :
                        refreshCalls[k].token = t /\ refreshCalls[k].status = 200 }) <= 1

\* C40: chunkText terminates with chunks that are all non-empty and at most
\* CHUNK_SIZE (500) characters long: every iteration of its loop either ends
\* the loop or leaves start strictly greater than it was, and every chunk
\* returned has between 1 and 500 characters.
C40_ChunkTextAdvancesWithinSize ==
    /\ [][(fn = "chunkText" /\ ~out.returned /\ out.start < args.length)
            => (out'.returned \/ out'.start > out.start)]_vars
    /\ [](fn = "chunkText" /\ out.returned
            => \A k \in 1..Len(out.chunks) :
                 /\ out.chunks[k].to - out.chunks[k].from >= 1
                 /\ out.chunks[k].to - out.chunks[k].from <= CHUNK_SIZE)

\* C17: trimContext applied to its own result, with the same budget, returns a
\* context equal to that result in every field.
C17_TrimIdempotent ==
    retrimmed # NoContext =>
        /\ retrimmed.conversation_history = trimmed.conversation_history
        /\ retrimmed.previous_bot_answers = trimmed.previous_bot_answers
        /\ retrimmed.retrieval_results = trimmed.retrieval_results
        /\ retrimmed.customer_profile = trimmed.customer_profile
        /\ retrimmed.session_metadata = trimmed.session_metadata
        /\ retrimmed.automation_config = trimmed.automation_config

C17_Witness ==
    /\ retrimmed # NoContext
    /\ retrimmed = trimmed
    /\ trimmed # context
    /\ estimateTokens(trimmed) > maxTokens
    /\ trimmed.previous_bot_answers # <<>>

\* C18: trimContext returns as many retrieval results as it was given, in the
\* same order, each with its doc_id, title and chunk_score, and a chunk_text
\* that is the given text or a prefix of it.
C18_RetrievalPreserved ==
    trimmed # NoContext =>
        LET given == context.retrieval_results
            kept == trimmed.retrieval_results
        IN /\ Len(kept) = Len(given)
           /\ \A k \in 1..Len(given) :
                /\ kept[k].doc_id = given[k].doc_id
                /\ kept[k].title = given[k].title
                /\ kept[k].chunk_score = given[k].chunk_score
                /\ kept[k].chunk_text.id = given[k].chunk_text.id
                /\ kept[k].chunk_text.len <= given[k].chunk_text.len

C18_Witness ==
    /\ trimmed # NoContext
    /\ Len(trimmed.retrieval_results) = MaxResults
    /\ \E k \in 1..Len(trimmed.retrieval_results) :
          trimmed.retrieval_results[k].chunk_text.len
              < context.retrieval_results[k].chunk_text.len

\* C19: for a context over budget the result is that of the first of the four
\* reductions, taken in order and each on top of the ones before, after which
\* the estimate is within the budget, or of all four if none reaches it:
\* (1) the 3 most recent bot answers, (2) the 10 most recent history messages,
\* (3) the 5 most recent history messages, (4) every chunk text cut to 500.
C19_StrictCascade ==
    LET MostRecent(s, n) ==
            SelectSeq(s, LAMBDA m :
                Cardinality({ x \in 1..Len(s) : s[x].timestamp > m.timestamp }) < n)
        CutTo500(r) == [r EXCEPT !.chunk_text.len = IF @ > 500 THEN 500 ELSE @]
        s1 == [context EXCEPT !.previous_bot_answers = MostRecent(@, 3)]
        s2 == [s1 EXCEPT !.conversation_history = MostRecent(@, 10)]
        s3 == [s2 EXCEPT !.conversation_history = MostRecent(@, 5)]
        s4 == [s3 EXCEPT !.retrieval_results = [k \in 1..Len(@) |-> CutTo500(@[k])]]
        Within(c) == estimateTokens(c) <= maxTokens
    IN (trimmed # NoContext /\ ~Within(context)) =>
          trimmed = IF Within(s1) THEN s1
                    ELSE IF Within(s2) THEN s2
                    ELSE IF Within(s3) THEN s3
                    ELSE s4

C19_Witness ==
    /\ trimmed # NoContext
    /\ estimateTokens(trimmed) <= maxTokens
    /\ Len(context.previous_bot_answers) > 3
    /\ Len(trimmed.previous_bot_answers) = 3
    /\ Len(context.conversation_history) > 10
    /\ Len(trimmed.conversation_history) = 10
    /\ trimmed.retrieval_results = context.retrieval_results
    /\ \E k \in 1..Len(trimmed.retrieval_results) :
          trimmed.retrieval_results[k].chunk_text.len > 500

\* C20: a context whose estimate is within the budget is returned with every
\* field as it was given.
C20_FitsUnchanged ==
    (trimmed # NoContext /\ estimateTokens(context) <= maxTokens) =>
        /\ trimmed.conversation_history = context.conversation_history
        /\ trimmed.previous_bot_answers = context.previous_bot_answers
        /\ trimmed.retrieval_results = context.retrieval_results
        /\ trimmed.customer_profile = context.customer_profile
        /\ trimmed.session_metadata = context.session_metadata
        /\ trimmed.automation_config = context.automation_config

C20_Witness ==
    /\ trimmed # NoContext
    /\ estimateTokens(context) <= maxTokens
    /\ trimmed = context
    /\ Len(context.previous_bot_answers) > 3
    /\ Len(context.conversation_history) > 10
    /\ \E k \in 1..Len(context.retrieval_results) :
          context.retrieval_results[k].chunk_text.len > 500

====
